---- MODULE Spec2Model ----
(***************************************************************************)
(* Register access and meta-evaluation in the ErgoTree interpreter:        *)
(* ExtractRegisterAs::eval and DeserializeRegister::eval, evaluated        *)
(* against a context whose self box carries ten registers R0..R9.          *)
(***************************************************************************)
EXTENDS Integers, Sequences, FiniteSets, TLC

VARIABLES
    node,     \* the expression node under evaluation (immutable tree)
    env,      \* the Env handed to eval
    ctx,      \* the EvalContext: [height, self_box]
    pc,       \* "ready" before the eval call, "done" after it returned
    result,   \* what eval returned: [ok |-> Value] or [err |-> kind] or [abort |-> why]
    log,      \* the collaborator calls eval made, in order
    lexpr,    \* an Expr of ergo-lib's ast
    lcall,    \* the query made on lexpr: "none", "op_code" or "tpe"
    lret,     \* what the query returned, or the panic it ended in
    reader,   \* a SigmaByteReader: [inner, constant_store, substitute_placeholders,
              \* val_def_type_store]
    rctor,    \* the constructor that made the reader
    rtree,    \* the expression whose serialization the reader was made over
    rout,     \* the bytes the reader's callers obtained so far, in order
    rlast,    \* the last call on the reader and what it returned
    parsed,   \* what Expr::sigma_parse on the reader returned
    seeds,    \* peer_discovery's argument: the seed URLs, a non-empty list
    max_parallel_requests,  \* peer_discovery's argument, at least 1
    net,      \* the network: what a query of each host meets
    url_chan, \* the (tx_url, rx_url) channel: URLs sent and not yet taken
    msg_chan, \* the (tx_msg, rx_msg) channel: messages sent and not yet received
    track,    \* the tracking task: its position and its local variables
    tasks,    \* the queries the request task spawned, in spawn order
    timer,    \* the timeout task: "sleeping", "fired" or "received"
    discovered,  \* what peer_discovery returned
    hist      \* history: what was sent, processed and reported so far

evalVars == <<node, env, ctx, pc, result, log>>
exprVars == <<lexpr, lcall, lret>>
readerVars == <<reader, rctor, rtree, rout, rlast, parsed>>
discVars == <<seeds, max_parallel_requests, net, url_chan, msg_chan, track, tasks,
              timer, discovered, hist>>
vars == <<node, env, ctx, pc, result, log, lexpr, lcall, lret,
          reader, rctor, rtree, rout, rlast, parsed,
          seeds, max_parallel_requests, net, url_chan, msg_chan, track, tasks,
          timer, discovered, hist>>

(***************************************************************************)
(* Bounds of the model.                                                    *)
(***************************************************************************)
\* heights drawn for the context are 0..MaxHeight
MaxHeight == 2
\* depth of nested eval calls the stack holds before the process aborts
MaxDepth == 4
\* the longest buffer a caller hands to read
MaxRead == 2
\* peer_discovery is called with max_parallel_requests in 1..MaxParallel
MaxParallel == 2

(***************************************************************************)
(* SType: a type is the prefix spelling of its constructor tree.           *)
(***************************************************************************)
SBoolean == <<"SBoolean">>
SByte == <<"SByte">>
SInt == <<"SInt">>
SLong == <<"SLong">>
SBox == <<"SBox">>
SColl(t) == <<"SColl">> \o t
SOption(t) == <<"SOption">> \o t

\* the element type of SColl(t) / SOption(t)
ElemType(t) == Tail(t)

(***************************************************************************)
(* Value: the tagged union of runtime values; the tag is the field name.   *)
(***************************************************************************)
VBoolean(b) == [Boolean |-> b]
VInt(i) == [Int |-> i]
VLong(i) == [Long |-> i]
VCollByte(bs) == [CollByte |-> bs]
VBox(b) == [CBox |-> b]
\* Value::Opt(Box<Option<Value>>): the empty or one-element sequence
VOpt(o) == [Opt |-> o]
None == <<>>
Some(x) == <<x>>

IsTag(v, tag) == tag \in DOMAIN v

\* Constant: a value paired with its type tag
Constant(t, v) == [tpe |-> t, v |-> v]
ConstInt(i) == Constant(SInt, VInt(i))
ConstLong(i) == Constant(SLong, VLong(i))
ConstBool(b) == Constant(SBoolean, VBoolean(b))
ConstBytes(bs) == Constant(SColl(SByte), VCollByte(bs))

(***************************************************************************)
(* Expr: the closed set of node kinds used here.                           *)
(***************************************************************************)
Const(c) == [kind |-> "Const", c |-> c]
Height == [kind |-> "GlobalVars", var |-> "Height"]
SelfBox == [kind |-> "GlobalVars", var |-> "SelfBox"]
NEq(l, r) == [kind |-> "BinOp", op |-> "NEq", left |-> l, right |-> r]
OptionGet(i) == [kind |-> "OptionGet", input |-> i]
ExtractRegisterAs(i, id, t) ==
    [kind |-> "ExtractRegisterAs", input |-> i, register_id |-> id, tpe |-> t]
DeserializeRegister(r, t, d) ==
    [kind |-> "DeserializeRegister", reg |-> r, tpe |-> t, default |-> d]
ConstPlaceholder(id, t) == [kind |-> "ConstPlaceholder", id |-> id, tpe |-> t]
PredefFunc(f) == [kind |-> "PredefFunc", func |-> f]
Fold(i, z, f) == [kind |-> "Fold", input |-> i, zero |-> z, fold_op |-> f]
Context == [kind |-> "Context"]
MethodCall(o, m) == [kind |-> "MethodCall", obj |-> o, method |-> m]
ProperyCall(o, m) == [kind |-> "ProperyCall", obj |-> o, method |-> m]

RECURSIVE Tpe(_)
\* Expr::tpe of ergotree_ir::mir: the static result type of a node
Tpe(e) ==
    CASE e.kind = "Const" -> e.c.tpe
      [] e.kind = "GlobalVars" -> IF e.var = "Height" THEN SInt ELSE SBox
      [] e.kind = "BinOp" -> SBoolean
      [] e.kind = "OptionGet" -> ElemType(Tpe(e.input))
      [] e.kind = "ExtractRegisterAs" -> e.tpe
      [] e.kind = "DeserializeRegister" -> e.tpe
      [] e.kind = "ConstPlaceholder" -> e.tpe

(***************************************************************************)
(* The binary wire format: opcode-prefixed, VLQ-integer-encoded,           *)
(* depth-first pre-order.  A byte is a number in 0..255.                   *)
(***************************************************************************)
\* zig-zag maps a signed integer to an unsigned one
ZigZag(i) == IF i >= 0 THEN 2 * i ELSE -2 * i - 1
UnZigZag(n) == IF n % 2 = 0 THEN n \div 2 ELSE -((n + 1) \div 2)

RECURSIVE PutVlq(_)
\* VLQ: seven bits a byte, low group first, high bit set on all but the last
PutVlq(n) == IF n < 128 THEN <<n>> ELSE <<(n % 128) + 128>> \o PutVlq(n \div 128)

ParseFail == [ok |-> FALSE]
ParseOk(v, rest) == [ok |-> TRUE, val |-> v, rest |-> rest]

RECURSIVE GetVlq(_)
\* reads one VLQ number; a truncated sequence is a parse error
GetVlq(bs) ==
    IF bs = <<>> THEN ParseFail
    ELSE IF Head(bs) < 128 THEN ParseOk(Head(bs), Tail(bs))
    ELSE LET r == GetVlq(Tail(bs))
         IN  IF r.ok THEN ParseOk((Head(bs) - 128) + 128 * r.val, r.rest) ELSE ParseFail

\* a signed byte (i8) on the wire and back
PutI8(i) == IF i < 0 THEN i + 256 ELSE i
GetI8(b) == IF b >= 128 THEN b - 256 ELSE b

\* the one-byte type codes
TypeCode(t) ==
    CASE t = SBoolean -> 1
      [] t = SByte -> 2
      [] t = SInt -> 4
      [] t = SLong -> 5
      [] t = SColl(SByte) -> 14
      [] t = SOption(SBoolean) -> 37
      [] t = SOption(SInt) -> 40
      [] t = SOption(SLong) -> 41
      [] t = SBox -> 99

WireTypes ==
    {SBoolean, SByte, SInt, SLong, SColl(SByte), SOption(SBoolean), SOption(SInt),
     SOption(SLong), SBox}

\* types a Constant on the wire can have (a type code followed by data)
DataTypes == {SBoolean, SInt, SLong, SColl(SByte)}

PutType(t) == <<TypeCode(t)>>

GetType(bs) ==
    IF bs = <<>> THEN ParseFail
    ELSE IF \E t \in WireTypes : TypeCode(t) = Head(bs)
         THEN ParseOk(CHOOSE t \in WireTypes : TypeCode(t) = Head(bs), Tail(bs))
         ELSE ParseFail

\* the data of a value of type t
PutData(t, v) ==
    CASE t = SBoolean -> <<IF v.Boolean THEN 1 ELSE 0>>
      [] t = SInt -> PutVlq(ZigZag(v.Int))
      [] t = SLong -> PutVlq(ZigZag(v.Long))
      [] t = SColl(SByte) -> PutVlq(Len(v.CollByte)) \o v.CollByte

GetData(t, bs) ==
    CASE t = SBoolean ->
            IF bs = <<>> THEN ParseFail ELSE ParseOk(VBoolean(Head(bs) # 0), Tail(bs))
      [] t = SInt ->
            LET r == GetVlq(bs)
            IN  IF r.ok THEN ParseOk(VInt(UnZigZag(r.val)), r.rest) ELSE ParseFail
      [] t = SLong ->
            LET r == GetVlq(bs)
            IN  IF r.ok THEN ParseOk(VLong(UnZigZag(r.val)), r.rest) ELSE ParseFail
      [] t = SColl(SByte) ->
            LET r == GetVlq(bs)
            IN  IF r.ok /\ r.val <= Len(r.rest)
                THEN ParseOk(VCollByte(SubSeq(r.rest, 1, r.val)),
                             SubSeq(r.rest, r.val + 1, Len(r.rest)))
                ELSE ParseFail
      [] OTHER -> ParseFail

\* the opcode of a non-constant node kind
OpCode(e) ==
    CASE e.kind = "BinOp" -> 148
      [] e.kind = "GlobalVars" -> IF e.var = "Height" THEN 163 ELSE 167
      [] e.kind = "ExtractRegisterAs" -> 198
      [] e.kind = "OptionGet" -> 200
      [] e.kind = "DeserializeRegister" -> 213
      [] e.kind = "ConstPlaceholder" -> 115
      [] e.kind = "Context" -> 142
      [] e.kind = "ProperyCall" -> 219
      [] e.kind = "MethodCall" -> 220

RECURSIVE sigma_serialize_bytes(_)
\* Expr::sigma_serialize_bytes: a constant is its type code and data, any
\* other node its opcode and then its fields in the reader's order
sigma_serialize_bytes(e) ==
    CASE e.kind = "Const" -> PutType(e.c.tpe) \o PutData(e.c.tpe, e.c.v)
      [] e.kind = "GlobalVars" -> <<OpCode(e)>>
      [] e.kind = "BinOp" ->
            <<OpCode(e)>> \o sigma_serialize_bytes(e.left) \o sigma_serialize_bytes(e.right)
      [] e.kind = "OptionGet" -> <<OpCode(e)>> \o sigma_serialize_bytes(e.input)
      [] e.kind = "ExtractRegisterAs" ->
            <<OpCode(e)>> \o sigma_serialize_bytes(e.input)
                \o <<PutI8(e.register_id)>> \o PutType(ElemType(e.tpe))
      [] e.kind = "DeserializeRegister" ->
            <<OpCode(e), e.reg>> \o PutType(e.tpe)
                \o (IF e.default = None THEN <<0>>
                    ELSE <<1>> \o sigma_serialize_bytes(e.default[1]))
      [] e.kind = "ConstPlaceholder" -> <<OpCode(e)>> \o PutVlq(e.id)

RECURSIVE sigma_parse(_, _, _)
\* Expr::sigma_parse on a reader over the bytes bs with the constant store
\* store, in substitute mode iff subst: the first byte is a type code (a
\* constant) or an opcode; a placeholder is a VLQ index into the store, out of
\* bounds a parse error, resolved to its Constant in substitute mode and kept,
\* with the Constant's type, in preserve mode
sigma_parse(bs, store, subst) ==
    IF bs = <<>> THEN ParseFail
    ELSE LET op == Head(bs)
             body == Tail(bs)
         IN  CASE \E t \in DataTypes : TypeCode(t) = op ->
                    LET t == CHOOSE t \in DataTypes : TypeCode(t) = op
                        d == GetData(t, body)
                    IN  IF d.ok THEN ParseOk(Const(Constant(t, d.val)), d.rest)
                        ELSE ParseFail
               [] op = 163 -> ParseOk(Height, body)
               [] op = 167 -> ParseOk(SelfBox, body)
               [] op = 148 ->
                    LET l == sigma_parse(body, store, subst)
                    IN  IF ~l.ok THEN ParseFail
                        ELSE LET r == sigma_parse(l.rest, store, subst)
                             IN  IF r.ok THEN ParseOk(NEq(l.val, r.val), r.rest)
                                 ELSE ParseFail
               [] op = 200 ->
                    LET i == sigma_parse(body, store, subst)
                    IN  IF i.ok /\ Head(Tpe(i.val)) = "SOption"
                        THEN ParseOk(OptionGet(i.val), i.rest)
                        ELSE ParseFail
               [] op = 198 ->
                    LET i == sigma_parse(body, store, subst)
                    IN  IF ~i.ok \/ i.rest = <<>> THEN ParseFail
                        ELSE LET t == GetType(Tail(i.rest))
                             IN  IF t.ok /\ Tpe(i.val) = SBox
                                 THEN ParseOk(ExtractRegisterAs(i.val, GetI8(Head(i.rest)),
                                                                SOption(t.val)), t.rest)
                                 ELSE ParseFail
               [] op = 213 ->
                    IF body = <<>> THEN ParseFail
                    ELSE LET t == GetType(Tail(body))
                         IN  IF ~t.ok \/ t.rest = <<>> THEN ParseFail
                             ELSE IF Head(t.rest) = 0
                                  THEN ParseOk(DeserializeRegister(Head(body), t.val, None),
                                               Tail(t.rest))
                                  ELSE LET d == sigma_parse(Tail(t.rest), store, subst)
                                       IN  IF d.ok
                                           THEN ParseOk(DeserializeRegister(Head(body), t.val,
                                                                            Some(d.val)), d.rest)
                                           ELSE ParseFail
               [] op = 115 ->
                    LET i == GetVlq(body)
                    IN  IF ~i.ok \/ i.val >= Len(store) THEN ParseFail
                        ELSE IF subst THEN ParseOk(Const(store[i.val + 1]), i.rest)
                        ELSE ParseOk(ConstPlaceholder(i.val, store[i.val + 1].tpe), i.rest)
               [] OTHER -> ParseFail

\* ConstantStore::empty
ConstantStoreEmpty == <<>>

\* the parse of a reader made by SigmaByteReader::new over an empty store
ParseExpr(bs) == sigma_parse(bs, ConstantStoreEmpty, FALSE)

\* Expr::sigma_parse_bytes: the expression at the start of the bytes, or a
\* parse error
sigma_parse_bytes(bs) ==
    LET r == ParseExpr(bs)
    IN  IF r.ok THEN [ok |-> TRUE, expr |-> r.val] ELSE [ok |-> FALSE]

(***************************************************************************)
(* The box collaborator: ten register slots.  A slot is empty, holds one   *)
(* Constant, or is unreadable (the lookup itself errors).                  *)
(***************************************************************************)
SlotEmpty == [st |-> "empty"]
SlotInvalid == [st |-> "invalid"]
SlotOf(c) == [st |-> "present", c |-> c]

\* RegisterId::try_from: the legal indices are R0..R9
RegisterIdTryFrom(i) ==
    IF i >= 0 /\ i <= 9 THEN [ok |-> TRUE, id |-> i] ELSE [ok |-> FALSE]

\* ErgoBox::get_register -> Result<Option<Constant>, RegisterValueError>
get_register(box, id) ==
    CASE box[id].st = "present" -> [ok |-> TRUE, val |-> Some(box[id].c)]
      [] box[id].st = "empty" -> [ok |-> TRUE, val |-> None]
      [] box[id].st = "invalid" -> [ok |-> FALSE]

(***************************************************************************)
(* Evaluation.  An eval call returns [res, log]: res is [ok |-> Value],    *)
(* [err |-> kind] or, when the call stack is exhausted, [abort |-> why];   *)
(* log lists the calls made on the collaborators, in order.                *)
(***************************************************************************)
Ok(v) == [ok |-> v]
Err(kind) == [err |-> kind]
StackOverflow == [abort |-> "stack overflow"]

IsOk(r) == "ok" \in DOMAIN r
IsErr(r, kind) == "err" \in DOMAIN r /\ r.err = kind
IsAbort(r) == "abort" \in DOMAIN r

Ret(r, l) == [res |-> r, log |-> l]

EvEval(e) == [ev |-> "eval", e |-> e]
EvGetRegister(id) == [ev |-> "get_register", id |-> id]
EvParse(bs) == [ev |-> "sigma_parse_bytes", bytes |-> bs]

\* TryExtractInto<Arc<ErgoBox>> and TryExtractInto<Vec<u8>>
TryExtractBox(v) == IF IsTag(v, "CBox") THEN [ok |-> TRUE, val |-> v.CBox] ELSE [ok |-> FALSE]
TryExtractBytes(v) ==
    IF IsTag(v, "CollByte") THEN [ok |-> TRUE, val |-> v.CollByte] ELSE [ok |-> FALSE]

RECURSIVE HasType(_, _)
\* the runtime type tag of a Value: v is a value of type t (the empty option
\* is a value of every option type)
HasType(v, t) ==
    CASE IsTag(v, "Boolean") -> t = SBoolean
      [] IsTag(v, "Int") -> t = SInt
      [] IsTag(v, "Long") -> t = SLong
      [] IsTag(v, "CollByte") -> t = SColl(SByte)
      [] IsTag(v, "CBox") -> t = SBox
      [] IsTag(v, "Opt") ->
            /\ Head(t) = "SOption"
            /\ v.Opt # None => HasType(v.Opt[1], ElemType(t))
      [] OTHER -> FALSE

RECURSIVE Eval(_, _, _, _)

\* the result r of a nested call, with the calls l made before it in front
Logged(l, r) == Ret(r.res, l \o r.log)

\* mutant: the default is evaluated without the type check
eval_default_Unchecked(deserialize_reg_tpe, default_expr, env_, ctx_, fuel) ==
    Eval(default_expr, env_, ctx_, fuel - 1)

\* mutant: the type check is inverted
eval_default_Inverted(deserialize_reg_tpe, default_expr, env_, ctx_, fuel) ==
    IF Tpe(default_expr) = deserialize_reg_tpe
    THEN Ret(Err("UnexpectedExpr"), <<>>)
    ELSE Eval(default_expr, env_, ctx_, fuel - 1)

\* eval_default of deserialize_register.rs
eval_default(deserialize_reg_tpe, default_expr, env_, ctx_, fuel) ==
    IF Tpe(default_expr) # deserialize_reg_tpe
    THEN Ret(Err("UnexpectedExpr"), <<>>)
    ELSE Eval(default_expr, env_, ctx_, fuel - 1)

\* mutant: the parsed expression is evaluated against a fresh context
DeserializeParsed_FreshCtx(self, expr, bs, env_, ctx_, fuel) ==
    IF ~expr.ok THEN Ret(Err("SigmaParsingError"), <<EvParse(bs)>>)
    ELSE IF Tpe(expr.expr) # self.tpe
         THEN Ret(Err("UnexpectedExpr"), <<EvParse(bs)>>)
         ELSE Logged(<<EvParse(bs)>>,
                     Eval(expr.expr, env_, [ctx_ EXCEPT !.height = 0], fuel - 1))

\* mutant: the parsed expression is evaluated whatever its static type
DeserializeParsed_NoTypeCheck(self, expr, bs, env_, ctx_, fuel) ==
    IF ~expr.ok THEN Ret(Err("SigmaParsingError"), <<EvParse(bs)>>)
    ELSE Logged(<<EvParse(bs)>>, Eval(expr.expr, env_, ctx_, fuel - 1))

\* DeserializeRegister::eval, from the parse result on: a parse error is
\* returned, the parsed expression is type-checked and only then evaluated
DeserializeParsed(self, expr, bs, env_, ctx_, fuel) ==
    IF ~expr.ok THEN Ret(Err("SigmaParsingError"), <<EvParse(bs)>>)
    ELSE IF Tpe(expr.expr) # self.tpe
         THEN Ret(Err("UnexpectedExpr"), <<EvParse(bs)>>)
         ELSE Logged(<<EvParse(bs)>>, Eval(expr.expr, env_, ctx_, fuel - 1))

\* DeserializeRegister::eval, the payload extracted as Vec<u8> and parsed
DeserializeBytes(self, bytes, env_, ctx_, fuel) ==
    IF ~bytes.ok THEN Ret(Err("TryExtractFrom"), <<>>)
    ELSE DeserializeParsed(self, sigma_parse_bytes(bytes.val), bytes.val, env_, ctx_, fuel)

\* mutant: the payload's type is not checked before the extraction
DeserializePresent_NoTypeCheck(self, c, env_, ctx_, fuel) ==
    DeserializeBytes(self, TryExtractBytes(c.v), env_, ctx_, fuel)

\* DeserializeRegister::eval, the arm Ok(Some(c))
DeserializePresent(self, c, env_, ctx_, fuel) ==
    IF c.tpe # SColl(SByte)
    THEN Ret(Err("UnexpectedExpr"), <<>>)
    ELSE DeserializeBytes(self, TryExtractBytes(c.v), env_, ctx_, fuel)

\* mutant: an empty register without a default is reported as a type error
DeserializeEmpty_WrongKind(self, env_, ctx_, fuel) ==
    IF self.default # None
    THEN eval_default(self.tpe, self.default[1], env_, ctx_, fuel)
    ELSE Ret(Err("UnexpectedExpr"), <<>>)

\* DeserializeRegister::eval, the arm Ok(None)
DeserializeEmpty(self, env_, ctx_, fuel) ==
    IF self.default # None
    THEN eval_default(self.tpe, self.default[1], env_, ctx_, fuel)
    ELSE Ret(Err("NotFound"), <<>>)

\* mutant: a lookup error without a default is swallowed as the value false
DeserializeLookupErr_Swallowed(self, env_, ctx_, fuel) ==
    IF self.default # None
    THEN eval_default(self.tpe, self.default[1], env_, ctx_, fuel)
    ELSE Ret(Ok(VBoolean(FALSE)), <<>>)

\* mutant: a lookup error is reported even when a default is supplied
DeserializeLookupErr_NoDefault(self, env_, ctx_, fuel) ==
    Ret(Err("NotFound"), <<>>)

\* DeserializeRegister::eval, the arm Err(e)
DeserializeLookupErr(self, env_, ctx_, fuel) ==
    IF self.default # None
    THEN eval_default(self.tpe, self.default[1], env_, ctx_, fuel)
    ELSE Ret(Err("NotFound"), <<>>)

\* DeserializeRegister::eval, the match on what get_register returned
DeserializeMatch(self, got, env_, ctx_, fuel) ==
    IF ~got.ok THEN DeserializeLookupErr(self, env_, ctx_, fuel)
    ELSE IF got.val = None THEN DeserializeEmpty(self, env_, ctx_, fuel)
    ELSE DeserializePresent(self, got.val[1], env_, ctx_, fuel)

\* mutant: an index out of range is handled like a failed lookup
DeserializeLookup_RangeAsLookupErr(self, id, env_, ctx_, fuel) ==
    IF ~id.ok THEN DeserializeLookupErr(self, env_, ctx_, fuel)
    ELSE Logged(<<EvGetRegister(id.id)>>,
                DeserializeMatch(self, get_register(ctx_.self_box, id.id), env_, ctx_, fuel))

\* DeserializeRegister::eval, given the converted index: the conversion's
\* error returns before get_register is called on the self box
DeserializeLookup(self, id, env_, ctx_, fuel) ==
    IF ~id.ok THEN Ret(Err("RegisterIdOutOfBounds"), <<>>)
    ELSE Logged(<<EvGetRegister(id.id)>>,
                DeserializeMatch(self, get_register(ctx_.self_box, id.id), env_, ctx_, fuel))

\* DeserializeRegister::eval
EvalDeserializeRegister(self, env_, ctx_, fuel) ==
    DeserializeLookup(self, RegisterIdTryFrom(self.reg), env_, ctx_, fuel)

\* mutant: an empty register is reported as NotFound
ExtractGot_EmptyIsError(reg_val_opt, id) ==
    IF ~reg_val_opt.ok \/ reg_val_opt.val = None
    THEN Ret(Err("NotFound"), <<EvGetRegister(id)>>)
    ELSE Ret(Ok(VOpt(Some(reg_val_opt.val[1].v))), <<EvGetRegister(id)>>)

\* mutant: a lookup error is swallowed as the value None
ExtractGot_ErrAsNone(reg_val_opt, id) ==
    IF ~reg_val_opt.ok THEN Ret(Ok(VOpt(None)), <<EvGetRegister(id)>>)
    ELSE Ret(Ok(VOpt(IF reg_val_opt.val = None THEN None
                     ELSE Some(reg_val_opt.val[1].v))),
             <<EvGetRegister(id)>>)

\* ExtractRegisterAs::eval, what get_register returned: a lookup error is
\* NotFound, otherwise the option of the constant's value
ExtractGot(reg_val_opt, id) ==
    IF ~reg_val_opt.ok THEN Ret(Err("NotFound"), <<EvGetRegister(id)>>)
    ELSE Ret(Ok(VOpt(IF reg_val_opt.val = None THEN None
                     ELSE Some(reg_val_opt.val[1].v))),
             <<EvGetRegister(id)>>)

\* ExtractRegisterAs::eval, given the converted index
ExtractLookup(id, ir_box) ==
    IF ~id.ok THEN Ret(Err("RegisterIdOutOfBounds"), <<>>)
    ELSE ExtractGot(get_register(ir_box, id.id), id.id)

\* ExtractRegisterAs::eval, given the input's value extracted as a box
ExtractFromBox(self, ir_box, inlog) ==
    IF ~ir_box.ok THEN Ret(Err("TryExtractFrom"), inlog)
    ELSE Logged(inlog, ExtractLookup(RegisterIdTryFrom(self.register_id), ir_box.val))

\* mutant: a failed input is recovered from as an empty register
ExtractInput_Recover(self, input) ==
    IF ~IsOk(input.res) THEN Ret(Ok(VOpt(None)), input.log)
    ELSE ExtractFromBox(self, TryExtractBox(input.res.ok), input.log)

\* ExtractRegisterAs::eval, given the evaluated input
ExtractInput(self, input) ==
    IF ~IsOk(input.res) THEN input
    ELSE ExtractFromBox(self, TryExtractBox(input.res.ok), input.log)

\* ExtractRegisterAs::eval
EvalExtractRegisterAs(self, env_, ctx_, fuel) ==
    ExtractInput(self, Eval(self.input, env_, ctx_, fuel - 1))

\* BinOp::eval for the relation NEq: left, then right, then compare
BinOpRight(l, r) ==
    IF ~IsOk(r.res) THEN Ret(r.res, l.log \o r.log)
    ELSE Ret(Ok(VBoolean(l.res.ok # r.res.ok)), l.log \o r.log)

BinOpLeft(self, l, env_, ctx_, fuel) ==
    IF ~IsOk(l.res) THEN l
    ELSE BinOpRight(l, Eval(self.right, env_, ctx_, fuel - 1))

EvalBinOp(self, env_, ctx_, fuel) ==
    BinOpLeft(self, Eval(self.left, env_, ctx_, fuel - 1), env_, ctx_, fuel)

\* OptionGet::eval: unwrap the optional or fail
OptionGetOf(i) ==
    IF ~IsOk(i.res) THEN i
    ELSE IF ~IsTag(i.res.ok, "Opt") THEN Ret(Err("TryExtractFrom"), i.log)
    ELSE IF i.res.ok.Opt = None THEN Ret(Err("NotFound"), i.log)
    ELSE Ret(Ok(i.res.ok.Opt[1]), i.log)

EvalOptionGet(self, env_, ctx_, fuel) ==
    OptionGetOf(Eval(self.input, env_, ctx_, fuel - 1))

\* GlobalVars::eval reads the immutable fields of the context
EvalGlobalVars(self, ctx_) ==
    IF self.var = "Height" THEN Ret(Ok(VInt(ctx_.height)), <<>>)
    ELSE Ret(Ok(VBox(ctx_.self_box)), <<>>)

\* Expr::eval: dispatch over the closed node-kind set; a call that finds no
\* stack left aborts the process
Eval(e, env_, ctx_, fuel) ==
    IF fuel = 0 THEN Ret(StackOverflow, <<>>)
    ELSE Logged(<<EvEval(e)>>,
                CASE e.kind = "Const" -> Ret(Ok(e.c.v), <<>>)
                  [] e.kind = "GlobalVars" -> EvalGlobalVars(e, ctx_)
                  [] e.kind = "BinOp" -> EvalBinOp(e, env_, ctx_, fuel)
                  [] e.kind = "OptionGet" -> EvalOptionGet(e, env_, ctx_, fuel)
                  [] e.kind = "ExtractRegisterAs" -> EvalExtractRegisterAs(e, env_, ctx_, fuel)
                  [] e.kind = "DeserializeRegister" ->
                        EvalDeserializeRegister(e, env_, ctx_, fuel))

(***************************************************************************)
(* The contexts and nodes the evaluations are drawn from.                  *)
(***************************************************************************)
HeightNe1 == NEq(Height, Const(ConstInt(1)))

\* expressions whose serialized form a register may hold
Payloads ==
    {HeightNe1, Const(ConstInt(1)), Const(ConstBool(TRUE)),
     DeserializeRegister(4, SBoolean, None),
     DeserializeRegister(5, SInt, None),
     OptionGet(ExtractRegisterAs(SelfBox, 5, SOption(SInt)))}

\* byte sequences no expression serializes to: an unknown opcode, a
\* truncated binary operation
Garbage == {<<255>>, <<148, 163>>}

R4Slots ==
    {SlotEmpty, SlotInvalid, SlotOf(ConstInt(1))}
        \cup {SlotOf(ConstBytes(sigma_serialize_bytes(p))) : p \in Payloads}
        \cup {SlotOf(ConstBytes(g)) : g \in Garbage}

R5Slots ==
    {SlotEmpty, SlotInvalid, SlotOf(ConstInt(7)),
     SlotOf(ConstBytes(sigma_serialize_bytes(Const(ConstInt(1))))),
     SlotOf(ConstBytes(sigma_serialize_bytes(HeightNe1)))}

STokens == <<"SColl", "STuple", "SColl", "SByte", "SLong">>
SCreationInfo == <<"STuple", "SInt", "SColl", "SByte">>

\* the bytes of the guarding script: an ErgoTree header byte, then its root
ScriptBytes == <<0>> \o sigma_serialize_bytes(Const(ConstBool(TRUE)))

\* an ErgoBox: R0..R3 are mandatory (value, script bytes, tokens, creation
\* info), R4..R9 are optional and densely packed
BoxWith(r4, r5) ==
    [i \in 0..9 |->
        CASE i = 0 -> SlotOf(ConstLong(1000))
          [] i = 1 -> SlotOf(ConstBytes(ScriptBytes))
          [] i = 2 -> SlotOf(Constant(STokens, [Coll |-> <<>>]))
          [] i = 3 -> SlotOf(Constant(SCreationInfo, [Tup |-> <<VInt(0), VCollByte(<<0>>)>>]))
          [] i = 4 -> r4
          [] i = 5 -> r5
          [] OTHER -> SlotEmpty]

Boxes == {BoxWith(r4, r5) : <<r4, r5>> \in {p \in R4Slots \X R5Slots :
                                               p[1] = SlotEmpty => p[2] = SlotEmpty}}

Contexts == [height : 0..MaxHeight, self_box : Boxes]

\* the Env of a top-level evaluation binds nothing
EmptyEnv == <<>>

\* a default that fails when evaluated: R9 is empty
FailingDefault == OptionGet(ExtractRegisterAs(SelfBox, 9, SOption(SInt)))

Defaults ==
    {None, Some(Const(ConstInt(1))), Some(Const(ConstBool(TRUE))), Some(HeightNe1),
     Some(FailingDefault)}

\* register indices as the nodes carry them: u8 for DeserializeRegister,
\* i8 for ExtractRegisterAs
DeserializeRegs == {0, 1, 4, 5, 9, 10, 255}
ExtractRegs == {-128, -1, 0, 4, 5, 9, 10, 127}

\* an input that fails (R9 is empty), one that is no box, and the self box
ExtractInputs ==
    {SelfBox, Height, OptionGet(ExtractRegisterAs(SelfBox, 9, SOption(SBox)))}

DeserializeNodes ==
    {DeserializeRegister(r, t, d) : <<r, t, d>> \in
        DeserializeRegs \X {SBoolean, SInt} \X Defaults}

ExtractNodes ==
    {ExtractRegisterAs(i, r, t) : <<i, r, t>> \in
        ExtractInputs \X ExtractRegs \X {SOption(SLong), SOption(SInt), SOption(SColl(SByte))}}

NoResult == [none |-> TRUE]

(***************************************************************************)
(* The state machine: one evaluation of one node against one context.      *)
(***************************************************************************)
\* the parts of the state a specification does not exercise
ExprIdle == lexpr = NoResult /\ lcall = "none" /\ lret = NoResult
ReaderIdle ==
    /\ reader = NoResult /\ rctor = "none" /\ rtree = NoResult
    /\ rout = <<>> /\ rlast = NoResult /\ parsed = NoResult
EvalIdle ==
    /\ node = NoResult /\ env = EmptyEnv /\ ctx = NoResult
    /\ pc = "idle" /\ result = NoResult /\ log = <<>>
DiscoveryIdle ==
    /\ seeds = <<>> /\ max_parallel_requests = 1 /\ net = NoResult
    /\ url_chan = <<>> /\ msg_chan = <<>> /\ track = NoResult /\ tasks = <<>>
    /\ timer = "none" /\ discovered = NoResult /\ hist = NoResult

InitEval ==
    /\ node \in DeserializeNodes \cup ExtractNodes
    /\ env = EmptyEnv
    /\ ctx \in Contexts
    /\ pc = "ready"
    /\ result = NoResult
    /\ log = <<>>
    /\ ExprIdle
    /\ ReaderIdle
    /\ DiscoveryIdle

\* mutant: get_register moves the Constant out of the register it reads
CallEffect_TakesRegister(c, ev) ==
    IF ev.ev = "get_register" /\ ev.id \in DOMAIN c.self_box
    THEN [c EXCEPT !.self_box[ev.id] = SlotEmpty]
    ELSE c

\* what one call of the evaluation does to the context it was handed as
\* &mut EvalContext: get_register borrows the box (&self), the parser sees
\* only the bytes, eval hands the reference on
CallEffect(c, ev) ==
    CASE ev.ev = "get_register" -> c
      [] ev.ev = "sigma_parse_bytes" -> c
      [] ev.ev = "eval" -> c

RECURSIVE ContextAfter(_, _)
\* the context after the calls l of an evaluation, in call order
ContextAfter(c, l) ==
    IF l = <<>> THEN c ELSE ContextAfter(CallEffect(c, Head(l)), Tail(l))

\* the caller stores what the call returned; the context is the one the
\* evaluation leaves behind
Returned(r) ==
    /\ result' = r.res
    /\ log' = r.log
    /\ ctx' = ContextAfter(ctx, r.log)

\* try_eval_out on a DeserializeRegister node
EvalDeserializeRegisterCall ==
    /\ pc = "ready"
    /\ node.kind = "DeserializeRegister"
    /\ Returned(Eval(node, env, ctx, MaxDepth))
    /\ pc' = "done"
    /\ UNCHANGED <<node, env, exprVars, readerVars, discVars>>

\* try_eval_out on an ExtractRegisterAs node
EvalExtractRegisterAsCall ==
    /\ pc = "ready"
    /\ node.kind = "ExtractRegisterAs"
    /\ Returned(Eval(node, env, ctx, MaxDepth))
    /\ pc' = "done"
    /\ UNCHANGED <<node, env, exprVars, readerVars, discVars>>

NextEval == EvalDeserializeRegisterCall \/ EvalExtractRegisterAsCall

SpecEval == InitEval /\ [][NextEval]_vars

(***************************************************************************)
(* Vocabulary of the properties.                                           *)
(***************************************************************************)
Done == pc = "done"
IsDeserialize == node.kind = "DeserializeRegister"
IsExtract == node.kind = "ExtractRegisterAs"
InRange(i) == i \in 0..9

\* the slot of the self box a DeserializeRegister node reads
SelfSlot == ctx.self_box[node.reg]
HasDefault == node.default # None
DefaultExpr == node.default[1]

\* what the input of an ExtractRegisterAs node evaluates to
InputRet == Eval(node.input, env, ctx, MaxDepth - 1)
InputIsBox == IsOk(InputRet.res) /\ IsTag(InputRet.res.ok, "CBox")
InputSlot == InputRet.res.ok.CBox[node.register_id]

\* the calls a DeserializeRegister evaluation makes up to the register lookup
LookupLog == <<EvEval(node), EvGetRegister(node.reg)>>

\* the register payload of a slot holding a byte-sequence Constant
HoldsBytes(slot) == slot.st = "present" /\ slot.c.tpe = SColl(SByte)
BytesOf(slot) == slot.c.v.CollByte

(***************************************************************************)
(* C1: a register index outside 0..9 makes DeserializeRegister.eval, and   *)
(* ExtractRegisterAs.eval once its input evaluated to a box, fail with     *)
(* RegisterIdOutOfBounds; get_register is not called for that index and a  *)
(* supplied default is not evaluated.                                      *)
(***************************************************************************)
C1_OutOfBounds ==
    Done =>
        /\ (IsDeserialize /\ ~InRange(node.reg)) =>
              /\ IsErr(result, "RegisterIdOutOfBounds")
              /\ log = <<EvEval(node)>>
        /\ (IsExtract /\ ~InRange(node.register_id) /\ InputIsBox) =>
              /\ IsErr(result, "RegisterIdOutOfBounds")
              /\ log = <<EvEval(node)>> \o InputRet.log

C1_Witness ==
    /\ Done /\ IsDeserialize /\ node.reg = 255 /\ HasDefault
    /\ Tpe(DefaultExpr) = node.tpe
    /\ IsErr(result, "RegisterIdOutOfBounds")

(***************************************************************************)
(* C2 as stated: a default whose static type differs from the declared     *)
(* type makes the evaluation fail with UnexpectedExpr whether the register *)
(* is present or absent.                                                   *)
(***************************************************************************)
C2_Original ==
    (Done /\ IsDeserialize /\ InRange(node.reg) /\ HasDefault
        /\ Tpe(DefaultExpr) # node.tpe)
    => IsErr(result, "UnexpectedExpr")

(***************************************************************************)
(* C2 amended: with such a default the evaluation fails with               *)
(* UnexpectedExpr when the register is empty or its lookup errors; when    *)
(* the register is present the default is not consulted, and the result is *)
(* that of the same node without a default.                                *)
(***************************************************************************)
C2_DefaultTypeCheckedWhenAbsent ==
    (Done /\ IsDeserialize /\ InRange(node.reg) /\ HasDefault
        /\ Tpe(DefaultExpr) # node.tpe)
    => /\ SelfSlot.st \in {"empty", "invalid"} => IsErr(result, "UnexpectedExpr")
       /\ SelfSlot.st = "present" =>
             result = Eval(DeserializeRegister(node.reg, node.tpe, None),
                           env, ctx, MaxDepth).res

C2_Witness ==
    /\ Done /\ IsDeserialize /\ node.reg = 5 /\ SelfSlot.st = "empty"
    /\ node.tpe = SInt /\ node.default = Some(Const(ConstBool(TRUE)))
    /\ IsErr(result, "UnexpectedExpr")

(***************************************************************************)
(* C3: when the register holds the serialized form of an expression e      *)
(* whose static type is the declared type and no default is given, the     *)
(* evaluation returns what evaluating e in the same env and ctx returns;   *)
(* for e = (HEIGHT != 1) declared boolean that is true at every height     *)
(* other than 1 and false at height 1.                                     *)
(***************************************************************************)
C3_EvaluatesSerializedExpr ==
    (Done /\ IsDeserialize /\ InRange(node.reg) /\ ~HasDefault /\ HoldsBytes(SelfSlot))
    => \A e \in Payloads :
          (sigma_serialize_bytes(e) = BytesOf(SelfSlot) /\ Tpe(e) = node.tpe)
          => /\ result = Eval(e, env, ctx, MaxDepth).res
             /\ e = HeightNe1 => result = Ok(VBoolean(ctx.height # 1))

C3_Witness ==
    /\ Done /\ IsDeserialize /\ node.reg = 4 /\ ~HasDefault /\ node.tpe = SBoolean
    /\ HoldsBytes(SelfSlot) /\ BytesOf(SelfSlot) = sigma_serialize_bytes(HeightNe1)
    /\ ctx.height = 1
    /\ result = Ok(VBoolean(FALSE))

(***************************************************************************)
(* C4: a present register whose Constant is not of type SColl(SByte) makes *)
(* the evaluation fail with UnexpectedExpr before any parse attempt, with  *)
(* or without a default; the default is not evaluated.                     *)
(***************************************************************************)
C4_WrongPayloadType ==
    (Done /\ IsDeserialize /\ InRange(node.reg) /\ SelfSlot.st = "present"
        /\ SelfSlot.c.tpe # SColl(SByte))
    => /\ IsErr(result, "UnexpectedExpr")
       /\ log = LookupLog

C4_Witness ==
    /\ Done /\ IsDeserialize /\ node.reg = 4 /\ SelfSlot = SlotOf(ConstInt(1))
    /\ HasDefault /\ Tpe(DefaultExpr) = node.tpe
    /\ IsErr(result, "UnexpectedExpr")

(***************************************************************************)
(* C5: when the register's bytes parse to an expression whose static type  *)
(* is not the declared type the evaluation fails with UnexpectedExpr and   *)
(* the parsed expression is not evaluated; it is evaluated only when the   *)
(* two types are equal.                                                    *)
(***************************************************************************)
C5_ParsedTypeMustMatch ==
    (Done /\ IsDeserialize /\ InRange(node.reg) /\ HoldsBytes(SelfSlot)
        /\ sigma_parse_bytes(BytesOf(SelfSlot)).ok)
    => /\ Tpe(sigma_parse_bytes(BytesOf(SelfSlot)).expr) # node.tpe =>
             /\ IsErr(result, "UnexpectedExpr")
             /\ log = LookupLog \o <<EvParse(BytesOf(SelfSlot))>>
       /\ (\E i \in 1..Len(log) :
               i > 1 /\ log[i] = EvEval(sigma_parse_bytes(BytesOf(SelfSlot)).expr))
          => Tpe(sigma_parse_bytes(BytesOf(SelfSlot)).expr) = node.tpe

C5_Witness ==
    /\ Done /\ IsDeserialize /\ node.reg = 4 /\ node.tpe = SBoolean
    /\ HoldsBytes(SelfSlot)
    /\ BytesOf(SelfSlot) = sigma_serialize_bytes(Const(ConstInt(1)))
    /\ IsErr(result, "UnexpectedExpr")
    /\ Len(log) = 3

(***************************************************************************)
(* C6: an in-range register that is empty, with no default, makes the      *)
(* evaluation fail with NotFound.                                          *)
(***************************************************************************)
C6_EmptyNoDefault ==
    (Done /\ IsDeserialize /\ InRange(node.reg) /\ SelfSlot.st = "empty" /\ ~HasDefault)
    => IsErr(result, "NotFound")

C6_Witness ==
    /\ Done /\ IsDeserialize /\ node.reg = 5 /\ SelfSlot.st = "empty" /\ ~HasDefault
    /\ node.tpe = SBoolean
    /\ IsErr(result, "NotFound")

(***************************************************************************)
(* C7: an in-range register that is empty, with a default whose static     *)
(* type is the declared type, makes the evaluation return what evaluating  *)
(* the default in the same env and ctx returns; the default 1i32 declared  *)
(* SInt evaluates to 1.                                                    *)
(***************************************************************************)
C7_EmptyWithDefault ==
    (Done /\ IsDeserialize /\ InRange(node.reg) /\ SelfSlot.st = "empty" /\ HasDefault
        /\ Tpe(DefaultExpr) = node.tpe)
    => /\ result = Eval(DefaultExpr, env, ctx, MaxDepth).res
       /\ DefaultExpr = Const(ConstInt(1)) => result = Ok(VInt(1))
       /\ DefaultExpr = HeightNe1 => result = Ok(VBoolean(ctx.height # 1))

C7_Witness ==
    /\ Done /\ IsDeserialize /\ node.reg = 5 /\ SelfSlot.st = "empty"
    /\ node.tpe = SInt /\ node.default = Some(Const(ConstInt(1)))
    /\ result = Ok(VInt(1))

(***************************************************************************)
(* C8: a box-level lookup error is handled like an empty register: the     *)
(* default, if any, is type-checked (mismatch is UnexpectedExpr) and then  *)
(* evaluated, and without a default the evaluation fails with NotFound;    *)
(* the outcome is that of the same node over the same box with the         *)
(* register empty.                                                         *)
(***************************************************************************)
C8_LookupErrorLikeEmpty ==
    (Done /\ IsDeserialize /\ InRange(node.reg) /\ SelfSlot.st = "invalid")
    => /\ ~HasDefault => IsErr(result, "NotFound")
       /\ (HasDefault /\ Tpe(DefaultExpr) # node.tpe) => IsErr(result, "UnexpectedExpr")
       /\ (HasDefault /\ Tpe(DefaultExpr) = node.tpe) =>
             result = Eval(DefaultExpr, env, ctx, MaxDepth).res
       /\ result = Eval(node, env,
                        [ctx EXCEPT !.self_box[node.reg] = SlotEmpty], MaxDepth).res

C8_Witness ==
    /\ Done /\ IsDeserialize /\ node.reg = 4 /\ SelfSlot.st = "invalid"
    /\ node.tpe = SBoolean /\ node.default = Some(HeightNe1)
    /\ ctx.height = 2
    /\ result = Ok(VBoolean(TRUE))

(***************************************************************************)
(* C9: on a box and an in-range index ExtractRegisterAs.eval returns       *)
(* Some(v) when the register holds a Constant with value v and None when   *)
(* the register is empty, and no error when the box lookup succeeds.       *)
(***************************************************************************)
C9_ExtractOption ==
    (Done /\ IsExtract /\ InRange(node.register_id) /\ InputIsBox)
    => /\ InputSlot.st = "present" => result = Ok(VOpt(Some(InputSlot.c.v)))
       /\ InputSlot.st = "empty" => result = Ok(VOpt(None))
       /\ InputSlot.st # "invalid" => IsOk(result)

C9_Witness ==
    /\ Done /\ IsExtract /\ node.register_id = 0 /\ node.input = SelfBox
    /\ node.tpe = SOption(SLong)
    /\ result = Ok(VOpt(Some(VLong(1000))))

(***************************************************************************)
(* C10: in ExtractRegisterAs.eval a box-level lookup failure for an        *)
(* in-range index is the error NotFound, and on a box NotFound is reported *)
(* for nothing else: not for an index out of range (RegisterIdOutOfBounds) *)
(* and not for an empty register (the value None).                         *)
(***************************************************************************)
C10_LookupFailureIsNotFound ==
    (Done /\ IsExtract /\ InputIsBox)
    => /\ (InRange(node.register_id) /\ InputSlot.st = "invalid") =>
             IsErr(result, "NotFound")
       /\ IsErr(result, "NotFound") =>
             (InRange(node.register_id) /\ InputSlot.st = "invalid")

C10_Witness ==
    /\ Done /\ IsExtract /\ node.register_id = 4 /\ node.input = SelfBox
    /\ ctx.self_box[4].st = "invalid"
    /\ IsErr(result, "NotFound")


(***************************************************************************)
(* C11 (type soundness): a successful evaluation of an ExtractRegisterAs   *)
(* or DeserializeRegister node yields a Value whose runtime type is the    *)
(* node's static type.                                                     *)
(***************************************************************************)
C11_TypeSoundness ==
    (Done /\ IsOk(result)) => HasType(result.ok, Tpe(node))


(***************************************************************************)
(* C12 (termination): every evaluation ends with exactly one Value or one  *)
(* error, whatever the self box's registers hold; it never exhausts the    *)
(* stack.                                                                  *)
(***************************************************************************)
C12_Terminates ==
    Done => (IsOk(result) \/ "err" \in DOMAIN result) /\ ~IsAbort(result)


(***************************************************************************)
(* C13: an error of a sub-evaluation is the enclosing node's result, same  *)
(* kind, no recovery: when the input of ExtractRegisterAs fails with e,    *)
(* eval returns e and makes no register lookup of its own; when the parsed *)
(* sub-expression or the default expression of DeserializeRegister fails   *)
(* with e, eval returns e.                                                 *)
(***************************************************************************)
IsFailure(r) == "err" \in DOMAIN r

\* the nested evaluation DeserializeRegister makes of the parsed payload
ParsedOfSelf == sigma_parse_bytes(BytesOf(SelfSlot))
ParsedRet == Eval(ParsedOfSelf.expr, env, ctx, MaxDepth - 1)

\* the nested evaluation DeserializeRegister makes of its default
DefaultRet == Eval(DefaultExpr, env, ctx, MaxDepth - 1)

C13_ErrorsPropagate ==
    Done =>
    /\ (IsExtract /\ IsFailure(InputRet.res))
       => /\ result = InputRet.res
          /\ log = <<EvEval(node)>> \o InputRet.log
    /\ (IsDeserialize /\ InRange(node.reg) /\ HoldsBytes(SelfSlot)
            /\ ParsedOfSelf.ok /\ Tpe(ParsedOfSelf.expr) = node.tpe
            /\ IsFailure(ParsedRet.res))
       => result = ParsedRet.res
    /\ (IsDeserialize /\ InRange(node.reg) /\ SelfSlot.st # "present"
            /\ HasDefault /\ Tpe(DefaultExpr) = node.tpe
            /\ IsFailure(DefaultRet.res))
       => result = DefaultRet.res

C13_Witness ==
    /\ Done /\ IsExtract /\ node.register_id = 4
    /\ node.input = OptionGet(ExtractRegisterAs(SelfBox, 9, SOption(SBox)))
    /\ IsErr(InputRet.res, "NotFound")
    /\ IsErr(result, "NotFound")
    /\ \A i \in 1..Len(log) : log[i].ev = "get_register" => log[i].id = 9


(***************************************************************************)
(* C14 as stated: whenever the box-level register lookup fails during the  *)
(* evaluation, eval returns an error and never a successful Value.         *)
(***************************************************************************)
\* some get_register call of this evaluation failed at the box level
LookupFailed ==
    \E i \in 1..Len(log) :
        log[i].ev = "get_register" /\ ctx.self_box[log[i].id].st = "invalid"

C14_Original ==
    (Done /\ LookupFailed) => ~IsOk(result)

(***************************************************************************)
(* C14 amended: a failed box-level lookup is NotFound in                   *)
(* ExtractRegisterAs.eval and in DeserializeRegister.eval without a        *)
(* default; the one case where the evaluation still succeeds is            *)
(* DeserializeRegister with a default of the declared type, whose own      *)
(* lookup failed and whose result is then what the default evaluates to.   *)
(***************************************************************************)
C14_LookupErrorOnlyDefaulted ==
    (Done /\ LookupFailed) =>
    /\ (IsExtract /\ InputIsBox /\ InRange(node.register_id)
            /\ InputSlot.st = "invalid") => IsErr(result, "NotFound")
    /\ (IsDeserialize /\ InRange(node.reg) /\ SelfSlot.st = "invalid"
            /\ ~HasDefault) => IsErr(result, "NotFound")
    /\ IsOk(result) =>
          /\ IsDeserialize /\ InRange(node.reg) /\ SelfSlot.st = "invalid"
          /\ HasDefault /\ Tpe(DefaultExpr) = node.tpe
          /\ result = DefaultRet.res

C14_Witness ==
    /\ Done /\ IsDeserialize /\ node.reg = 4 /\ SelfSlot.st = "invalid"
    /\ node.tpe = SInt /\ node.default = Some(Const(ConstInt(1)))
    /\ LookupFailed
    /\ result = Ok(VInt(1))


(***************************************************************************)
(* C15: evaluation is read-only on the context's box data: across any      *)
(* evaluation of ExtractRegisterAs or DeserializeRegister, successful or   *)
(* failing, nested parse-and-evaluate included, the self box's registers,  *)
(* the context's height and the evaluated node are the same after the call *)
(* as before it.                                                           *)
(***************************************************************************)
C15_ReadOnly ==
    [][/\ ctx'.self_box = ctx.self_box
       /\ ctx'.height = ctx.height
       /\ node' = node]_vars

\* an evaluation that looked a register up, parsed it and evaluated the
\* parsed expression, which looked another register up
C15_Witness ==
    /\ Done /\ IsDeserialize /\ node.reg = 4
    /\ \E i \in 1..Len(log) : log[i].ev = "sigma_parse_bytes"
    /\ \E i \in 1..Len(log) : log[i].ev = "get_register" /\ log[i].id = 5
    /\ IsErr(result, "NotFound")


(***************************************************************************)
(* ergo-lib's Expr (ast/expr.rs): the queries op_code() and tpe().  A      *)
(* query returns a value or, on todo!(), panics.                           *)
(***************************************************************************)
Return(v) == [ret |-> v]

\* todo!(): the thread panics with this message
Todo == [panic |-> "not yet implemented"]

\* Expr::op_code
op_code(e) ==
    CASE e.kind = "Const" -> Todo
      [] e.kind = "ConstPlaceholder" -> Return(OpCode(e))
      [] e.kind = "GlobalVars" -> Return(OpCode(e))
      [] e.kind = "MethodCall" -> Return(OpCode(e))
      [] e.kind = "ProperyCall" -> Return(OpCode(e))
      [] e.kind = "Context" -> Return(OpCode(e))
      [] e.kind = "OptionGet" -> Return(OpCode(e))
      [] e.kind = "ExtractRegisterAs" -> Return(OpCode(e))
      [] e.kind = "BinOp" -> Return(OpCode(e))
      [] OTHER -> Todo

\* Expr::tpe
tpe(e) ==
    CASE e.kind = "Const" -> Return(e.c.tpe)
      [] OTHER -> Todo

\* the variants of Expr, each with a few operands
LibLeaves ==
    {Const(ConstInt(0)), Const(ConstInt(1)), Const(ConstBool(TRUE)), Height, SelfBox,
     Context, ConstPlaceholder(0, SInt)}

LibExprs ==
    {Const(c) : c \in {ConstInt(0), ConstInt(1), ConstLong(1000), ConstBool(TRUE),
                       ConstBool(FALSE), ConstBytes(<<1>>)}}
        \cup {ConstPlaceholder(i, t) : <<i, t>> \in (0..1) \X {SInt, SBoolean}}
        \cup {PredefFunc("Sha256"), Context, Height, SelfBox}
        \cup {Fold(Const(ConstBytes(bs)), Const(ConstInt(0)), PredefFunc("Sha256")) :
                bs \in {<<>>, <<1>>}}
        \cup {MethodCall(Context, m) : m \in {"getVar", "fold"}}
        \cup {ProperyCall(Context, m) : m \in {"dataInputs", "size"}}
        \cup {NEq(l, r) : <<l, r>> \in LibLeaves \X LibLeaves}
        \cup {ExtractRegisterAs(SelfBox, r, SOption(SInt)) : r \in {0, 4}}
        \cup {OptionGet(ExtractRegisterAs(SelfBox, r, SOption(SLong))) : r \in {0, 4}}

InitExpr ==
    /\ lexpr \in LibExprs
    /\ lcall = "none"
    /\ lret = NoResult
    /\ EvalIdle
    /\ ReaderIdle
    /\ DiscoveryIdle

\* a caller asks the node for its opcode
OpCodeCall ==
    /\ lcall = "none"
    /\ lret' = op_code(lexpr)
    /\ lcall' = "op_code"
    /\ UNCHANGED <<lexpr, evalVars, readerVars, discVars>>

\* a caller asks the node for its static type
TpeCall ==
    /\ lcall = "none"
    /\ lret' = tpe(lexpr)
    /\ lcall' = "tpe"
    /\ UNCHANGED <<lexpr, evalVars, readerVars, discVars>>

NextExpr == OpCodeCall \/ TpeCall

SpecExpr == InitExpr /\ [][NextExpr]_vars

(***************************************************************************)
(* C17: Expr::op_code() returns an opcode for every variant of Expr; it    *)
(* never fails or aborts for any constructible node.                       *)
(***************************************************************************)
C17_OpCodeTotal ==
    lcall = "op_code" => "ret" \in DOMAIN lret

(***************************************************************************)
(* C18: Expr::tpe() returns a static result type for every variant of Expr *)
(* without failing; for Const(c) it is the type carried by c.              *)
(***************************************************************************)
C18_TpeTotal ==
    lcall = "tpe" =>
        /\ "ret" \in DOMAIN lret
        /\ lexpr.kind = "Const" => lret = Return(lexpr.c.tpe)


(***************************************************************************)
(* SigmaByteReader (serialization/sigma_byte_reader.rs) over a look-ahead  *)
(* byte source.                                                            *)
(***************************************************************************)
\* PeekableReader of sigma_ser: the bytes left in the underlying source and
\* the one byte looked ahead, if any
PeekableReaderNew(bs) == [src |-> bs, peeked |-> None]

\* the bytes the source still has to deliver, the looked-ahead byte first
Remaining(pr) == pr.peeked \o pr.src

Min(a, b) == IF a <= b THEN a ELSE b

\* PeekableReader::read into a buffer of n bytes
PeekableRead(pr, n) ==
    [inner |-> [src |-> SubSeq(Remaining(pr), Min(n, Len(Remaining(pr))) + 1,
                               Len(Remaining(pr))),
                peeked |-> None],
     ret |-> SubSeq(Remaining(pr), 1, Min(n, Len(Remaining(pr))))]

\* PeekableReader::peek_u8: the byte is taken from the source once and held
PeekablePeek(pr) ==
    IF pr.peeked # None THEN [inner |-> pr, ret |-> Ok(pr.peeked[1])]
    ELSE IF pr.src = <<>> THEN [inner |-> pr, ret |-> Err("UnexpectedEof")]
    ELSE [inner |-> [src |-> Tail(pr.src), peeked |-> Some(Head(pr.src))],
          ret |-> Ok(Head(pr.src))]

\* ValDefTypeStore: the types of the bound variables declared so far
ValDefTypeStoreNew == {}
ValDefInsert(store, id, t) == {p \in store : p[1] # id} \cup {<<id, t>>}

\* SigmaByteReader::new
new(pr, cs) ==
    [inner |-> pr, constant_store |-> cs, substitute_placeholders |-> FALSE,
     val_def_type_store |-> ValDefTypeStoreNew]

\* mutant: the substituting constructor leaves the flag off
new_with_substitute_placeholders_Preserving(pr, cs) ==
    [inner |-> pr, constant_store |-> cs, substitute_placeholders |-> FALSE,
     val_def_type_store |-> ValDefTypeStoreNew]

\* SigmaByteReader::new_with_substitute_placeholders
new_with_substitute_placeholders(pr, cs) ==
    [inner |-> pr, constant_store |-> cs, substitute_placeholders |-> TRUE,
     val_def_type_store |-> ValDefTypeStoreNew]

\* the reader with its inner source replaced, and what the call returned
WithInner(r, res) == [reader |-> [r EXCEPT !.inner = res.inner], ret |-> res.ret]

\* impl Read: delegates to the inner reader
read(r, n) == WithInner(r, PeekableRead(r.inner, n))

\* mutant: the look-ahead hands the byte out and does not hold it
peek_u8_Consuming(r) ==
    WithInner(r, [inner |-> PeekableRead(r.inner, 1).inner,
                  ret |-> PeekablePeek(r.inner).ret])

\* impl Peekable: delegates to the inner reader
peek_u8(r) == WithInner(r, PeekablePeek(r.inner))

\* impl SigmaByteRead
constant_store(r) == r.constant_store
substitute_placeholders(r) == r.substitute_placeholders

\* mutant: replacing the store drops the reader back to preserve mode
set_constant_store_ResetsMode(r, cs) ==
    [r EXCEPT !.constant_store = cs, !.substitute_placeholders = FALSE]

set_constant_store(r, cs) == [r EXCEPT !.constant_store = cs]
val_def_type_store(r) == r.val_def_type_store

\* Expr::sigma_parse on the reader: the parser sees the bytes still to come
\* and the reader's store and mode
ReaderParse(r) ==
    sigma_parse(Remaining(r.inner), constant_store(r), substitute_placeholders(r))

(***************************************************************************)
(* The readers and trees the runs are drawn from.                          *)
(***************************************************************************)
Stores ==
    {ConstantStoreEmpty, <<ConstInt(1)>>, <<ConstBool(TRUE), ConstInt(2)>>}

ValIds == {1}
ValTypes == {SInt, SBoolean}

\* trees with and without placeholders; some placeholders fit no store
Trees ==
    {Const(ConstInt(1)), Height, HeightNe1,
     ConstPlaceholder(0, SInt), ConstPlaceholder(0, SBoolean), ConstPlaceholder(1, SInt),
     ConstPlaceholder(2, SInt),
     NEq(Height, ConstPlaceholder(0, SInt)),
     NEq(ConstPlaceholder(1, SInt), ConstPlaceholder(1, SInt)),
     OptionGet(ExtractRegisterAs(SelfBox, 4, SOption(SInt))),
     DeserializeRegister(4, SInt, Some(ConstPlaceholder(0, SInt)))}

Constructors == {"new", "new_with_substitute_placeholders"}

\* the reader a constructor makes over bytes and a store
Construct(ctor, bs, cs) ==
    IF ctor = "new" THEN new(PeekableReaderNew(bs), cs)
    ELSE new_with_substitute_placeholders(PeekableReaderNew(bs), cs)

\* the bytes the reader was made over
Source == sigma_serialize_bytes(rtree)

InitReader ==
    /\ rtree \in Trees
    /\ rctor \in Constructors
    /\ \E cs \in Stores : reader = Construct(rctor, sigma_serialize_bytes(rtree), cs)
    /\ rout = <<>>
    /\ rlast = NoResult
    /\ parsed = NoResult
    /\ EvalIdle
    /\ ExprIdle
    /\ DiscoveryIdle

Called(name, ret) == [call |-> name, ret |-> ret]

\* the caller keeps the reader the call left and the bytes it was handed
ReadReturned(res) ==
    /\ reader' = res.reader
    /\ rout' = rout \o res.ret
    /\ rlast' = Called("read", res.ret)

ReadCall ==
    /\ parsed = NoResult
    /\ \E n \in 1..MaxRead : ReadReturned(read(reader, n))
    /\ UNCHANGED <<rctor, rtree, parsed, evalVars, exprVars, discVars>>

PeekReturned(res) ==
    /\ reader' = res.reader
    /\ rlast' = Called("peek_u8", res.ret)

PeekCall ==
    /\ parsed = NoResult
    /\ PeekReturned(peek_u8(reader))
    /\ UNCHANGED <<rctor, rtree, rout, parsed, evalVars, exprVars, discVars>>

ConstantStoreCall ==
    /\ parsed = NoResult
    /\ rlast' = Called("constant_store", constant_store(reader))
    /\ UNCHANGED <<reader, rctor, rtree, rout, parsed, evalVars, exprVars, discVars>>

SubstitutePlaceholdersCall ==
    /\ parsed = NoResult
    /\ rlast' = Called("substitute_placeholders", substitute_placeholders(reader))
    /\ UNCHANGED <<reader, rctor, rtree, rout, parsed, evalVars, exprVars, discVars>>

SetConstantStoreCall ==
    /\ parsed = NoResult
    /\ \E cs \in Stores : reader' = set_constant_store(reader, cs)
    /\ rlast' = Called("set_constant_store", <<>>)
    /\ UNCHANGED <<rctor, rtree, rout, parsed, evalVars, exprVars, discVars>>

\* the caller declares a bound variable through the returned reference
ValDefTypeStoreCall ==
    /\ parsed = NoResult
    /\ \E id \in ValIds, t \in ValTypes :
          reader' = [reader EXCEPT !.val_def_type_store =
                        ValDefInsert(val_def_type_store(reader), id, t)]
    /\ rlast' = Called("val_def_type_store", <<>>)
    /\ UNCHANGED <<rctor, rtree, rout, parsed, evalVars, exprVars, discVars>>

\* the parse consumed the bytes before res.rest; a failed parse stops
\* somewhere in the stream
ParseReturned(res) ==
    /\ parsed' = IF res.ok THEN [ok |-> TRUE, expr |-> res.val] ELSE [ok |-> FALSE]
    /\ \E k \in 0..Len(Remaining(reader.inner)) :
          /\ res.ok => k = Len(Remaining(reader.inner)) - Len(res.rest)
          /\ reader' = [reader EXCEPT !.inner =
                            PeekableReaderNew(SubSeq(Remaining(reader.inner), k + 1,
                                                     Len(Remaining(reader.inner))))]
          /\ rout' = rout \o SubSeq(Remaining(reader.inner), 1, k)
    /\ rlast' = Called("sigma_parse", res.ok)

\* Expr::sigma_parse on a reader nothing was read from yet
SigmaParseCall ==
    /\ parsed = NoResult
    /\ rout = <<>>
    /\ ParseReturned(ReaderParse(reader))
    /\ UNCHANGED <<rctor, rtree, evalVars, exprVars, discVars>>

NextReader ==
    \/ ReadCall
    \/ PeekCall
    \/ ConstantStoreCall
    \/ SubstitutePlaceholdersCall
    \/ SetConstantStoreCall
    \/ ValDefTypeStoreCall
    \/ SigmaParseCall

SpecReader == InitReader /\ [][NextReader]_vars


(***************************************************************************)
(* Vocabulary of the reader's properties.                                  *)
(***************************************************************************)
LastCall(name) == "call" \in DOMAIN rlast /\ rlast.call = name

RECURSIVE Consistent(_, _)
\* every placeholder of the tree indexes the store and carries the type of
\* the Constant it stands for
Consistent(e, store) ==
    CASE e.kind = "ConstPlaceholder" ->
            e.id < Len(store) /\ store[e.id + 1].tpe = e.tpe
      [] e.kind = "BinOp" -> Consistent(e.left, store) /\ Consistent(e.right, store)
      [] e.kind = "OptionGet" -> Consistent(e.input, store)
      [] e.kind = "ExtractRegisterAs" -> Consistent(e.input, store)
      [] e.kind = "DeserializeRegister" ->
            e.default = None \/ Consistent(e.default[1], store)
      [] OTHER -> TRUE

RECURSIVE Substituted(_, _)
\* the tree with every placeholder resolved to its Constant: in substitute
\* mode a placeholder equals the literal it resolves to
Substituted(e, store) ==
    CASE e.kind = "ConstPlaceholder" -> Const(store[e.id + 1])
      [] e.kind = "BinOp" ->
            NEq(Substituted(e.left, store), Substituted(e.right, store))
      [] e.kind = "OptionGet" -> OptionGet(Substituted(e.input, store))
      [] e.kind = "ExtractRegisterAs" ->
            ExtractRegisterAs(Substituted(e.input, store), e.register_id, e.tpe)
      [] e.kind = "DeserializeRegister" ->
            DeserializeRegister(e.reg, e.tpe,
                                IF e.default = None THEN None
                                ELSE Some(Substituted(e.default[1], store)))
      [] OTHER -> e

\* the mode the constructor stands for
SubstituteMode == rctor = "new_with_substitute_placeholders"

\* the tree a round trip must give under the mode's placeholder equality
Expected ==
    IF SubstituteMode THEN Substituted(rtree, reader.constant_store) ELSE rtree

C19_ModeFixed ==
    /\ substitute_placeholders(reader) = SubstituteMode
    /\ LastCall("substitute_placeholders") => rlast.ret = SubstituteMode

C19_Witness ==
    /\ SubstituteMode
    /\ rout # <<>>
    /\ reader.inner.peeked # None
    /\ val_def_type_store(reader) # ValDefTypeStoreNew
    /\ constant_store(reader) = ConstantStoreEmpty
    /\ LastCall("substitute_placeholders") /\ rlast.ret = TRUE

(***************************************************************************)
(* C20: peek_u8 returns the next byte of the source without consuming it:  *)
(* the bytes obtained by read, followed by the bytes still to come, are    *)
(* the source whatever peeks were interleaved; a peek returns the byte the *)
(* next read starts with; a peek leaves the constant store, the val-def    *)
(* type store, the mode and the bytes read so far unchanged.               *)
(***************************************************************************)
C20_PeekDoesNotConsume ==
    /\ [](rout \o Remaining(reader.inner) = Source)
    /\ []((LastCall("peek_u8") /\ IsOk(rlast.ret)) =>
            /\ Remaining(reader.inner) # <<>>
            /\ rlast.ret.ok = Head(Remaining(reader.inner))
            /\ rlast.ret.ok = Source[Len(rout) + 1])
    /\ []((LastCall("peek_u8") /\ ~IsOk(rlast.ret)) => Len(rout) = Len(Source))
    /\ [][LastCall("peek_u8")' =>
            /\ reader'.constant_store = reader.constant_store
            /\ reader'.val_def_type_store = reader.val_def_type_store
            /\ reader'.substitute_placeholders = reader.substitute_placeholders
            /\ rout' = rout]_vars
    /\ [][(LastCall("peek_u8") /\ IsOk(rlast.ret) /\ LastCall("read")') =>
            Head(rlast'.ret) = rlast.ret.ok]_vars

C20_Witness ==
    /\ LastCall("peek_u8") /\ IsOk(rlast.ret)
    /\ rout # <<>>
    /\ reader.inner.peeked = Some(rlast.ret.ok)
    /\ Len(reader.inner.src) > 0


(***************************************************************************)
(* peer_discovery (ergo-rest, api/node.rs): a tracking task hands node     *)
(* URLs to an HTTP request task over a bounded channel and receives the    *)
(* query results over another; a timer ends the search.                    *)
(***************************************************************************)
\* the port of a node's REST API and the ports seeds and peers are known by
ApiPort == 9053
P2PPort == 9030
AltPort == 9020

\* a Url: a host and an optional explicit port
Url(host, port) == [host |-> host, port |-> port]

\* Url::set_port
set_port(url, port) == [url EXCEPT !.port = port]

\* PeerInfo, as returned by /peers/all: the peer's address
PeerInfo(host) == [addr |-> [host |-> host, port |-> P2PPort]]

\* PeerAddr::as_http_url
as_http_url(addr) == Url(addr.host, Some(addr.port))

\* enum Msg
AddActiveNode(url) == [msg |-> "AddActiveNode", url |-> url]
AddInactiveNode(url) == [msg |-> "AddInactiveNode", url |-> url]
CheckPeers(peers) == [msg |-> "CheckPeers", peers |-> peers]
IsStatus(p) == p.msg \in {"AddActiveNode", "AddInactiveNode"}

Max(a, b) == IF a >= b THEN a ELSE b
Last(s) == s[Len(s)]
Front(s) == SubSeq(s, 1, Len(s) - 1)

\* mutant: the channels hold max_parallel_requests items only
buffer_size_ParallelOnly(mpr, nseeds) == mpr

\* peer_discovery: the capacity of both channels
buffer_size(mpr, nseeds) == Max(mpr, nseeds)

BufferSize == buffer_size(max_parallel_requests, Len(seeds))

\* peer_discovery_inner: the seeds with their ports removed, as a set
SeedsSet(ss) == {set_port(ss[i], None) : i \in 1..Len(ss)}

\* ChannelTrySender::try_send on a channel holding chan of cap items; the
\* receiver lives as long as the sender, so the channel is never closed
try_send(chan, cap) == IF Len(chan) < cap THEN "Ok" ELSE "Full"

(***************************************************************************)
(* The tracking loop's drain of peer_stack.  A drain state d holds the     *)
(* stack, visited_peers, count, the URL channel, the URLs sent by this     *)
(* drain and the peer a full channel refused, if any.                      *)
(***************************************************************************)
RECURSIVE Drain(_, _)

\* mutant: a peer the full channel refuses is dropped
DrainPeer_FullDropsPeer(d, cap, url) ==
    IF url \in d.visited THEN Drain([d EXCEPT !.stack = Front(d.stack)], cap)
    ELSE IF try_send(d.chan, cap) = "Ok"
         THEN Drain([d EXCEPT !.stack = Front(d.stack),
                              !.visited = @ \cup {url},
                              !.count = @ + 1,
                              !.chan = Append(@, url),
                              !.sent = Append(@, url)], cap)
         ELSE [d EXCEPT !.stack = Front(d.stack), !.full = Some(Last(d.stack))]

\* mutant: a peer the full channel refuses is counted as handed over
DrainPeer_FullCounts(d, cap, url) ==
    IF url \in d.visited THEN Drain([d EXCEPT !.stack = Front(d.stack)], cap)
    ELSE IF try_send(d.chan, cap) = "Ok"
         THEN Drain([d EXCEPT !.stack = Front(d.stack),
                              !.visited = @ \cup {url},
                              !.count = @ + 1,
                              !.chan = Append(@, url),
                              !.sent = Append(@, url)], cap)
         ELSE [d EXCEPT !.count = @ + 1, !.full = Some(Last(d.stack))]

\* one popped peer with its port-less url: skipped when visited, else sent
\* with try_send; Ok marks it visited and counts it, Full pushes it back and
\* ends the drain
DrainPeer(d, cap, url) ==
    IF url \in d.visited THEN Drain([d EXCEPT !.stack = Front(d.stack)], cap)
    ELSE IF try_send(d.chan, cap) = "Ok"
         THEN Drain([d EXCEPT !.stack = Front(d.stack),
                              !.visited = @ \cup {url},
                              !.count = @ + 1,
                              !.chan = Append(@, url),
                              !.sent = Append(@, url)], cap)
         ELSE [d EXCEPT !.full = Some(Last(d.stack))]

\* while let Some(peer) = peer_stack.pop()
Drain(d, cap) ==
    IF d.stack = <<>> THEN d
    ELSE DrainPeer(d, cap, set_port(as_http_url(Last(d.stack).addr), None))

\* the drain state at the start of an iteration
DrainStart(t, chan) ==
    [stack |-> t.peer_stack, visited |-> t.visited_peers, count |-> t.count,
     chan |-> chan, sent |-> <<>>, full |-> None]

\* the tracking task's variables after the drain
AfterDrain(t, d) ==
    [t EXCEPT !.peer_stack = d.stack, !.visited_peers = d.visited, !.count = d.count]

\* count -= 1; if count == 0 { break 'loop_ }
Decrement(t) ==
    [t EXCEPT !.count = @ - 1, !.pc = IF t.count - 1 = 0 THEN "returned" ELSE @]

\* mutant: the peers of a CheckPeers message are dropped
ProcessMsg_IgnoresPeers(t, p) ==
    CASE p.msg = "AddActiveNode" ->
            Decrement([t EXCEPT
                !.visited_active_peers = @ \cup {set_port(p.url, None)},
                !.visited_peers = @ \cup {set_port(p.url, None)}])
      [] p.msg = "AddInactiveNode" ->
            Decrement([t EXCEPT !.visited_peers = @ \cup {set_port(p.url, None)}])
      [] p.msg = "CheckPeers" -> t

\* mutant: an active node is recorded with the port it was queried on
ProcessMsg_KeepsPort(t, p) ==
    CASE p.msg = "AddActiveNode" ->
            Decrement([t EXCEPT
                !.visited_active_peers = @ \cup {p.url},
                !.visited_peers = @ \cup {set_port(p.url, None)}])
      [] p.msg = "AddInactiveNode" ->
            Decrement([t EXCEPT !.visited_peers = @ \cup {set_port(p.url, None)}])
      [] p.msg = "CheckPeers" -> [t EXCEPT !.peer_stack = @ \o p.peers]

\* mutant: a status message does not decrement count
ProcessMsg_NoDecrement(t, p) ==
    CASE p.msg = "AddActiveNode" ->
            [t EXCEPT
                !.visited_active_peers = @ \cup {set_port(p.url, None)},
                !.visited_peers = @ \cup {set_port(p.url, None)}]
      [] p.msg = "AddInactiveNode" ->
            Decrement([t EXCEPT !.visited_peers = @ \cup {set_port(p.url, None)}])
      [] p.msg = "CheckPeers" -> [t EXCEPT !.peer_stack = @ \o p.peers]

\* match p: the three arms of the tracking loop
ProcessMsg(t, p) ==
    CASE p.msg = "AddActiveNode" ->
            Decrement([t EXCEPT
                !.visited_active_peers = @ \cup {set_port(p.url, None)},
                !.visited_peers = @ \cup {set_port(p.url, None)}])
      [] p.msg = "AddInactiveNode" ->
            Decrement([t EXCEPT !.visited_peers = @ \cup {set_port(p.url, None)}])
      [] p.msg = "CheckPeers" -> [t EXCEPT !.peer_stack = @ \o p.peers]

\* the lists that enumerate a HashSet: each element once, in any order
Orders(S) ==
    {s \in [1..Cardinality(S) -> S] : \A i, j \in 1..Cardinality(S) : s[i] = s[j] => i = j}

\* the returned list: the active peers that are not seeds, collected from the
\* set difference in the order the HashSet iterates, which is unspecified
Collect(t) == {Ok(s) : s \in Orders(t.visited_active_peers \ t.seeds_set)}


(***************************************************************************)
(* The network and the calls peer_discovery is made with.                  *)
(***************************************************************************)
\* what a query of a host meets: whether its name resolves to a socket
\* address, whether GET /info answers 200, and what GET /peers/all returns
Up(peers) == [resolves |-> TRUE, info |-> TRUE, peers |-> Some(peers)]
InfoOnly == [resolves |-> TRUE, info |-> TRUE, peers |-> None]
Down == [resolves |-> TRUE, info |-> FALSE, peers |-> None]
Unresolved == [resolves |-> FALSE, info |-> FALSE, peers |-> None]

Hosts == {"n1", "n2", "n3", "n4", "gone.example"}

Networks ==
    {[h \in Hosts |->
        CASE h = "n1" -> Up(<<PeerInfo("n2"), PeerInfo("n3")>>)
          [] h = "n2" -> Up(<<PeerInfo("n1"), PeerInfo("n3")>>)
          [] h = "n3" -> Down
          [] OTHER -> Unresolved],
     [h \in Hosts |->
        CASE h = "n1" -> Up(<<PeerInfo("n3"), PeerInfo("n2"), PeerInfo("n3")>>)
          [] h = "n2" -> InfoOnly
          [] h = "n3" -> Up(<<PeerInfo("n4")>>)
          [] h = "n4" -> Up(<<>>)
          [] OTHER -> Unresolved]}

SeedLists ==
    {<<Url("n1", Some(P2PPort))>>,
     <<Url("n1", Some(P2PPort)), Url("n1", Some(AltPort))>>,
     <<Url("n1", Some(P2PPort)), Url("n2", Some(P2PPort))>>,
     <<Url("gone.example", Some(P2PPort)), Url("n1", Some(P2PPort))>>}

\* the tracking task before its first send
TrackStart(ss) ==
    [pc |-> "seeding", seeds_set |-> SeedsSet(ss), pending |-> SeedsSet(ss),
     count |-> 0, visited_active_peers |-> {}, visited_peers |-> {},
     peer_stack |-> <<>>]

HistStart ==
    [url_log |-> <<>>, statuses |-> 0, checked |-> {}, active |-> {},
     exit |-> "none", full |-> None, refused |-> {}]

InitDiscovery ==
    /\ seeds \in SeedLists
    /\ max_parallel_requests \in 1..MaxParallel
    /\ net \in Networks
    /\ url_chan = <<>>
    /\ msg_chan = <<>>
    /\ track = TrackStart(seeds)
    /\ tasks = <<>>
    /\ timer = "sleeping"
    /\ discovered = NoResult
    /\ hist = HistStart
    /\ EvalIdle
    /\ ExprIdle
    /\ ReaderIdle

otherVars == <<evalVars, exprVars, readerVars>>

(***************************************************************************)
(* The tracking task.                                                      *)
(***************************************************************************)
Running == track.pc # "returned"

\* for url in &seeds_set { tx_url.infallible_send(url.clone()).await }: the
\* send waits for room in the channel; after the last one count is set and
\* the loop entered
SeedSent(url, rest) ==
    /\ url_chan' = Append(url_chan, url)
    /\ track' = [track EXCEPT !.pending = rest,
                              !.count = IF rest = {} THEN Cardinality(track.seeds_set)
                                        ELSE @,
                              !.pc = IF rest = {} THEN "loop" ELSE @]
    /\ hist' = [hist EXCEPT !.url_log = Append(@, url)]

SendSeed ==
    /\ track.pc = "seeding"
    /\ Len(url_chan) < BufferSize
    /\ \E url \in track.pending : SeedSent(url, track.pending \ {url})
    /\ UNCHANGED <<seeds, max_parallel_requests, net, msg_chan, tasks, timer,
                   discovered, otherVars>>

\* the peers a CheckPeers message names, as port-less URLs
PeerUrls(p) ==
    IF p.msg = "CheckPeers"
    THEN {set_port(as_http_url(p.peers[i].addr), None) : i \in 1..Len(p.peers)}
    ELSE {}

\* one iteration of the loop on a message: t is the task after the drain d
\* and the match on p
RxMsgDone(t, d, p) ==
    /\ track' = t
    /\ url_chan' = d.chan
    /\ msg_chan' = Tail(msg_chan)
    /\ discovered' \in (IF t.pc = "returned" THEN Collect(t) ELSE {discovered})
    /\ hist' = [hist EXCEPT
                    !.url_log = @ \o d.sent,
                    !.statuses = IF IsStatus(p) THEN @ + 1 ELSE @,
                    !.checked = @ \cup PeerUrls(p),
                    !.active = IF p.msg = "AddActiveNode" THEN @ \cup {p.url} ELSE @,
                    !.exit = IF t.pc = "returned" THEN "count" ELSE @,
                    !.full = d.full,
                    !.refused = IF d.full = None THEN @
                                ELSE @ \cup {set_port(as_http_url(d.full[1].addr), None)}]

RxMsgDrained(d, p) == RxMsgDone(ProcessMsg(AfterDrain(track, d), p), d, p)

\* C::RxMsg(p): drain peer_stack into the URL channel, then match on p
RxMsg ==
    /\ track.pc = "loop"
    /\ msg_chan # <<>>
    /\ RxMsgDrained(Drain(DrainStart(track, url_chan), BufferSize), Head(msg_chan))
    /\ UNCHANGED <<seeds, max_parallel_requests, net, tasks, timer, otherVars>>

\* mutant: the timeout signal is consumed and the loop goes on
RxTimeoutSignal_Continues ==
    /\ track.pc = "loop"
    /\ timer = "fired"
    /\ timer' = "received"
    /\ UNCHANGED <<seeds, max_parallel_requests, net, url_chan, msg_chan, track,
                   tasks, discovered, hist, otherVars>>

\* C::RxTimeoutSignal: break, then return the active peers found so far
RxTimeoutSignal ==
    /\ track.pc = "loop"
    /\ timer = "fired"
    /\ timer' = "received"
    /\ track' = [track EXCEPT !.pc = "returned"]
    /\ discovered' \in Collect(track)
    /\ hist' = [hist EXCEPT !.exit = "timeout"]
    /\ UNCHANGED <<seeds, max_parallel_requests, net, url_chan, msg_chan, tasks,
                   otherVars>>

(***************************************************************************)
(* The timer task: sleep(timeout), then send the signal.                   *)
(***************************************************************************)
TimerFire ==
    /\ Running
    /\ timer = "sleeping"
    /\ timer' = "fired"
    /\ UNCHANGED <<seeds, max_parallel_requests, net, url_chan, msg_chan, track,
                   tasks, discovered, hist, otherVars>>

(***************************************************************************)
(* The HTTP request task.  Each URL taken from the channel is mapped to a  *)
(* future that spawns the query and is done; buffer_unordered holds at     *)
(* most max_parallel_requests of these futures.                            *)
(***************************************************************************)
\* the spawned query of a url, not yet run
Spawned(url) ==
    [url |-> set_port(url, Some(ApiPort)), phase |-> "spawned", peers |-> <<>>,
     checks |-> 0, statuses |-> 0]

\* the futures buffer_unordered holds unfinished: each finishes in the poll
\* that spawns its query, so none is held between two steps
Buffered == 0

\* the request task takes the next url and spawns its query
TakeUrl ==
    /\ Running
    /\ url_chan # <<>>
    /\ Buffered < max_parallel_requests
    /\ tasks' = Append(tasks, Spawned(Head(url_chan)))
    /\ url_chan' = Tail(url_chan)
    /\ UNCHANGED <<seeds, max_parallel_requests, net, msg_chan, track, timer,
                   discovered, hist, otherVars>>

\* the query itself: socket_addrs(..).unwrap() panics when the host does not
\* resolve; get_info, then get_peers_all, decide the messages to send
QueryOutcome(task, n) ==
    IF ~n.resolves THEN [task EXCEPT !.phase = "panicked"]
    ELSE IF ~n.info THEN [task EXCEPT !.phase = "send_inactive"]
    ELSE IF n.peers = None THEN [task EXCEPT !.phase = "send_inactive"]
    ELSE [task EXCEPT !.phase = "send_check", !.peers = n.peers[1]]

QueryNode ==
    /\ Running
    /\ \E i \in 1..Len(tasks) :
          /\ tasks[i].phase = "spawned"
          /\ tasks' = [tasks EXCEPT ![i] = QueryOutcome(tasks[i], net[tasks[i].url.host])]
    /\ UNCHANGED <<seeds, max_parallel_requests, net, url_chan, msg_chan, track,
                   timer, discovered, hist, otherVars>>

\* tx_peer.infallible_send(Msg::CheckPeers(peers)).await: waits for room
SendCheckPeers ==
    /\ Running
    /\ Len(msg_chan) < BufferSize
    /\ \E i \in 1..Len(tasks) :
          /\ tasks[i].phase = "send_check"
          /\ msg_chan' = Append(msg_chan, CheckPeers(tasks[i].peers))
          /\ tasks' = [tasks EXCEPT ![i].phase = "send_active", ![i].checks = @ + 1]
    /\ UNCHANGED <<seeds, max_parallel_requests, net, url_chan, track, timer,
                   discovered, hist, otherVars>>

\* the status message of a task
StatusMsg(task) ==
    IF task.phase = "send_active" THEN AddActiveNode(task.url)
    ELSE AddInactiveNode(task.url)

\* tx_peer.infallible_send(Msg::AddActiveNode(url)) or AddInactiveNode(url)
SendStatus ==
    /\ Running
    /\ Len(msg_chan) < BufferSize
    /\ \E i \in 1..Len(tasks) :
          /\ tasks[i].phase \in {"send_active", "send_inactive"}
          /\ msg_chan' = Append(msg_chan, StatusMsg(tasks[i]))
          /\ tasks' = [tasks EXCEPT ![i].phase = "done", ![i].statuses = @ + 1]
    /\ UNCHANGED <<seeds, max_parallel_requests, net, url_chan, track, timer,
                   discovered, hist, otherVars>>

NextDiscovery ==
    \/ SendSeed
    \/ RxMsg
    \/ RxTimeoutSignal
    \/ TimerFire
    \/ TakeUrl
    \/ QueryNode
    \/ SendCheckPeers
    \/ SendStatus

SpecDiscovery == InitDiscovery /\ [][NextDiscovery]_vars

\* the runtime runs the tracking task and the timer task whenever they can
\* make a step: a seed send that has room completes, the sleep ends, and
\* select_all yields the timeout signal once it is there.  Nothing is assumed
\* of the request task and the queries it spawned.
SpecDiscoveryFair ==
    /\ SpecDiscovery
    /\ WF_vars(SendSeed)
    /\ WF_vars(RxTimeoutSignal)
    /\ WF_vars(TimerFire)


(***************************************************************************)
(* Vocabulary of the discovery properties.                                 *)
(***************************************************************************)
\* the spawned queries whose status message has not been sent yet
InFlight ==
    {i \in 1..Len(tasks) :
        tasks[i].phase \in {"spawned", "send_check", "send_active", "send_inactive"}}

\* the spawned queries whose HTTP requests are still running
Querying == {i \in 1..Len(tasks) : tasks[i].phase = "spawned"}

(***************************************************************************)
(* C21: during peer_discovery the number of HTTP node queries in flight    *)
(* (started, status message not yet sent) never exceeds                    *)
(* max_parallel_requests.                                                  *)
(***************************************************************************)
C21_BoundedParallelism ==
    /\ Cardinality(InFlight) <= max_parallel_requests
    /\ Cardinality(Querying) <= max_parallel_requests


\* the URLs in the list peer_discovery returned
Returned_urls ==
    IF "ok" \in DOMAIN discovered
    THEN {discovered.ok[i] : i \in 1..Len(discovered.ok)}
    ELSE {}

\* the step in which the tracking loop receives the timeout signal
TimeoutReceived == timer = "fired" /\ timer' = "received"

(***************************************************************************)
(* C22: when the tracking loop receives the timeout signal it stops        *)
(* without processing any further message, and peer_discovery returns Ok   *)
(* with the active peers recorded up to that point, whatever count and     *)
(* peer_stack are.                                                         *)
(***************************************************************************)
C22_TimeoutStops ==
    /\ [][TimeoutReceived =>
            /\ track' = [track EXCEPT !.pc = "returned"]
            /\ "ok" \in DOMAIN discovered'
            /\ Returned_urls' = track.visited_active_peers \ track.seeds_set
            /\ UNCHANGED <<msg_chan, url_chan>>]_vars
    /\ [][timer = "received" => UNCHANGED <<track, discovered, msg_chan, url_chan>>]_vars

\* the timeout ended a run with queries outstanding, a peer waiting on
\* peer_stack, a message unprocessed and an active node already recorded
C22_Witness ==
    /\ hist.exit = "timeout"
    /\ track.pc = "returned"
    /\ track.count > 0
    /\ track.peer_stack # <<>>
    /\ msg_chan # <<>>
    /\ track.visited_active_peers # {}
    /\ Returned_urls = track.visited_active_peers \ track.seeds_set


(***************************************************************************)
(* C23: peer_discovery always eventually returns.  Under fair scheduling   *)
(* of the tracking task, the request task and the timer the loop exits by  *)
(* count reaching zero or by the timeout signal, and a seed send never     *)
(* finds the URL channel full.                                             *)
(***************************************************************************)
C23_EventuallyReturns ==
    /\ [](track.pc = "seeding" => Len(url_chan) < BufferSize)
    /\ [](track.pc = "returned" => hist.exit \in {"count", "timeout"})
    /\ <>(track.pc = "returned")

\* a run whose count can never reach zero (a query ended without a status
\* message) has returned, by the timeout
C23_Witness ==
    /\ track.pc = "returned"
    /\ hist.exit = "timeout"
    /\ \E i \in 1..Len(tasks) : tasks[i].phase = "panicked"
    /\ InFlight = {}
    /\ msg_chan = <<>>


(***************************************************************************)
(* C24: a node is queried exactly once per run: no port-normalised URL,    *)
(* seed or discovered peer, is sent on the URL channel more than once.     *)
(***************************************************************************)
C24_QueriedOnce ==
    \A i, j \in 1..Len(hist.url_log) :
        hist.url_log[i] = hist.url_log[j] => i = j


\* the step in which the tracking loop processes a status message
StatusProcessed ==
    /\ track.pc = "loop"
    /\ msg_chan # <<>>
    /\ IsStatus(Head(msg_chan))
    /\ msg_chan' = Tail(msg_chan)

(***************************************************************************)
(* C25: in every state of the tracking loop count is the number of URLs    *)
(* handed to the request task whose status message has not been processed  *)
(* yet; so count is at least 1 when a status message is processed and the  *)
(* decrement never takes it below zero.                                    *)
(***************************************************************************)
C25_CountIsOutstanding ==
    /\ [](track.pc \in {"loop", "returned"} =>
            /\ track.count = Len(hist.url_log) - hist.statuses
            /\ track.count >= 0)
    /\ [][StatusProcessed => track.count >= 1 /\ track'.count >= 0]_vars

\* a status message has been processed after peers were handed over by
\* try_send, and queries are still outstanding
C25_Witness ==
    /\ track.pc = "loop"
    /\ hist.statuses >= 1
    /\ Len(hist.url_log) > Cardinality(track.seeds_set)
    /\ track.count >= 1


\* the spawned queries that have ended
Ended == {i \in 1..Len(tasks) : tasks[i].phase \in {"done", "panicked"}}

(***************************************************************************)
(* C26: for every URL it takes from the URL channel the request task sends *)
(* exactly one status message (AddActiveNode or AddInactiveNode), and for  *)
(* an active node CheckPeers is sent before AddActiveNode.                 *)
(***************************************************************************)
C26_OneStatusPerUrl ==
    /\ \A i \in 1..Len(tasks) : tasks[i].statuses <= 1
    /\ \A i \in Ended : tasks[i].statuses = 1
    /\ \A i \in 1..Len(tasks) :
          tasks[i].phase = "send_active" => tasks[i].checks = 1 /\ tasks[i].statuses = 0


\* the port-less URL the drain computes for a peer
PeerUrl(peer) == set_port(as_http_url(peer.addr), None)

\* the URLs handed to the request task so far
Handed == {hist.url_log[i] : i \in 1..Len(hist.url_log)}

(***************************************************************************)
(* C27: when the tracking loop exits because count reached zero,           *)
(* peer_stack holds no peer whose URL is unvisited, and every peer a       *)
(* processed CheckPeers message reported has been handed to the request    *)
(* task or was already visited.                                            *)
(***************************************************************************)
C27_NothingLeftUnqueried ==
    hist.exit = "count" =>
        /\ \A i \in 1..Len(track.peer_stack) :
              PeerUrl(track.peer_stack[i]) \in track.visited_peers
        /\ hist.checked \subseteq track.visited_peers
        /\ hist.checked \subseteq Handed

\* a run ended by count after CheckPeers reported peers and some of them
\* were handed to the request task
C27_Witness ==
    /\ hist.exit = "count"
    /\ track.count = 0
    /\ hist.checked # {}
    /\ Len(hist.url_log) > Cardinality(track.seeds_set)


\* the step in which the tracking loop processes a message
MsgProcessed ==
    /\ track.pc = "loop"
    /\ msg_chan # <<>>
    /\ msg_chan' = Tail(msg_chan)

\* the URLs handed to the request task in the current step
NewlySent ==
    {hist'.url_log[i] : i \in (Len(hist.url_log) + 1)..Len(hist'.url_log)}

\* the URL of the message being processed, if it is a status message
StatusUrls ==
    IF IsStatus(Head(msg_chan)) THEN {set_port(Head(msg_chan).url, None)} ELSE {}

\* a try_send in the current step found the URL channel full: the peer is
\* still on peer_stack, its URL was not sent, the drain did not mark it
\* visited, and count grew by the URLs that were sent only
RefusedKept(peer) ==
    /\ \E i \in 1..Len(track'.peer_stack) : track'.peer_stack[i] = peer
    /\ PeerUrl(peer) \notin NewlySent
    /\ PeerUrl(peer) \notin track'.visited_peers \ StatusUrls
    /\ track'.count = track.count + Cardinality(NewlySent) - Cardinality(StatusUrls)

\* the peer on top of peer_stack is tried again by the next drain: handed
\* over when the channel has room
Retried ==
    (/\ track.peer_stack # <<>>
     /\ PeerUrl(Last(track.peer_stack)) \notin track.visited_peers
     /\ Len(url_chan) < BufferSize)
        => /\ PeerUrl(Last(track.peer_stack)) \in NewlySent
           /\ PeerUrl(Last(track.peer_stack)) \in track'.visited_peers

\* no waiting peer is lost: it stays on peer_stack until its URL is visited
NotLost ==
    \A i \in 1..Len(track.peer_stack) :
        \/ \E j \in 1..Len(track'.peer_stack) : track'.peer_stack[j] = track.peer_stack[i]
        \/ PeerUrl(track.peer_stack[i]) \in track'.visited_peers

(***************************************************************************)
(* C28: when try_send of a peer's URL fails because the URL channel is     *)
(* full the peer is pushed back on peer_stack, its URL is not added to     *)
(* visited_peers, count is not incremented, and the send is retried when a *)
(* later message is processed.                                             *)
(***************************************************************************)
C28_FullKeepsPeer ==
    /\ [][MsgProcessed /\ hist'.full # None => RefusedKept(hist'.full[1])]_vars
    /\ [][MsgProcessed => Retried]_vars
    /\ [][NotLost]_vars

\* a peer the full channel refused was handed over by a later drain, after
\* which peer_stack is empty
C28_Witness ==
    /\ hist.full = None
    /\ track.peer_stack = <<>>
    /\ \E u \in hist.refused : u \in Handed /\ u \in track.visited_peers


\* the port-less URLs of the AddActiveNode messages processed so far
ReportedActive == {set_port(u, None) : u \in hist.active}

(***************************************************************************)
(* C29: every URL in the list peer_discovery returns was reported by an    *)
(* AddActiveNode message processed before the loop ended, is not one of    *)
(* the port-normalised seed URLs and appears in the list at most once;     *)
(* every reported-active URL is also in visited_peers.                     *)
(***************************************************************************)
C29_ReturnedAreActiveNonSeeds ==
    /\ "ok" \in DOMAIN discovered =>
          /\ Returned_urls \subseteq ReportedActive
          /\ Returned_urls \cap SeedsSet(seeds) = {}
          /\ \A i, j \in 1..Len(discovered.ok) :
                discovered.ok[i] = discovered.ok[j] => i = j
    /\ track.pc \in {"loop", "returned"} => ReportedActive \subseteq track.visited_peers

\* a returned list of two peers, from a run in which a seed was active too
C29_Witness ==
    /\ "ok" \in DOMAIN discovered
    /\ Len(discovered.ok) >= 2
    /\ ReportedActive \cap SeedsSet(seeds) # {}
    /\ Returned_urls # ReportedActive

====
